---- MODULE Spec2Model ----
(***************************************************************************)
(* Model of src/web_monitor.py: the WebMonitor availability monitor.        *)
(*                                                                         *)
(* One run of WebMonitor.run is a sequence of steps: acquiring the Chrome   *)
(* session, one check_url call per target, the filtering of the failed      *)
(* results, the building and posting of a Teams card, and the finally       *)
(* block (_cleanup).  The outside world (web servers, the browser, the      *)
(* Teams webhook) answers every call nondeterministically.                  *)
(*                                                                         *)
(* Python strings are TLA+ strings.  Letters with accents and the emoji of  *)
(* the source's literals are written as one ASCII character each, so that   *)
(* every literal keeps its length in characters.  MonitorResult.timestamp   *)
(* and what the program prints are not modelled.                            *)
(***************************************************************************)
EXTENDS Integers, Sequences, FiniteSets, TLC

VARIABLES
    pc,             \* where run is: "idle" (not running), "checking", "notify", "finally"
    runs,           \* number of calls of run on this instance so far
    urls,           \* run's argument urls
    notify_always,  \* run's argument notify_always
    driver,         \* self._driver: 0 is None, otherwise the id of a session
    sessions,       \* sessions[id]: the number of quit() calls on session id
    results,        \* run's local list results
    reqs,           \* per target checked in this run: the requests it made
    failed_urls,    \* run's local list failed_urls
    card,           \* the card built in this run
    posts,          \* the cards handed to requests.post in this run
    fault,          \* which phase raised into run's except clause
    exit_code,      \* the value run returns (NoCode until it is decided)
    cleanups,       \* _cleanup calls in this run
    quits,          \* quit() calls in this run
    tin,            \* truncation bench: the string given
    tout            \* truncation bench: the strings produced from it

vars == <<pc, runs, urls, notify_always, driver, sessions, results, reqs,
          failed_urls, card, posts, fault, exit_code, cleanups, quits, tin, tout>>

(***************************************************************************)
(* Bounds of the model.                                                     *)
(***************************************************************************)
MaxTargets == 2
MaxCardResults == 12
MaxStrLen == 60

(***************************************************************************)
(* Program constants.                                                       *)
(***************************************************************************)
TIMEOUT_SECONDS == 45
FILE_TIMEOUT == 15
FailedCap == 10
WorkingCap == 8
WorkingBatch == 4
SuccessBatch == 5
PathSlice == 40
PathLimit == 40
PathKeep == 37
DomainFallback == 50
TitleSlice == 50
ErrSliceFile == 80
ErrSliceWeb == 100
FileWindow == 500
WebWindow == 1000
MinMarkup == 100
HttpOk == 200
NoCode == -1

(***************************************************************************)
(* Python's str and list operations.                                        *)
(***************************************************************************)
Min(a, b) == IF a < b THEN a ELSE b

\* s[i] as a one-character string (1-based)
Char(s, i) == SubSeq(s, i, i)

\* s[:n] for a string or a list
Take(s, n) == SubSeq(s, 1, Min(n, Len(s)))

\* s[n:] for a string or a list
Drop(s, n) == SubSeq(s, n + 1, Len(s))

\* s.endswith(t)
EndsWith(s, t) == Len(t) <= Len(s) /\ SubSeq(s, Len(s) - Len(t) + 1, Len(s)) = t

\* s.startswith(t)
StartsWith(s, t) == Len(t) <= Len(s) /\ SubSeq(s, 1, Len(t)) = t

\* t in s
Contains(s, t) == \E i \in 1..(Len(s) - Len(t) + 1) : SubSeq(s, i, i + Len(t) - 1) = t

UpperLetters == "ABCDEFGHIJKLMNOPQRSTUVWXYZ"
LowerLetters == "abcdefghijklmnopqrstuvwxyz"

LowerChar(c) ==
    IF \E k \in 1..Len(UpperLetters) : Char(UpperLetters, k) = c
    THEN Char(LowerLetters, CHOOSE k \in 1..Len(UpperLetters) : Char(UpperLetters, k) = c)
    ELSE c

RECURSIVE Lower(_)
\* s.lower()
Lower(s) ==
    IF Len(s) = 0 THEN ""
    ELSE IF Len(s) = 1 THEN LowerChar(s)
    ELSE Lower(Take(s, Len(s) \div 2)) \o Lower(Drop(s, Len(s) \div 2))

RECURSIVE SplitFrom(_, _, _, _)
SplitFrom(s, i, cur, acc) ==
    IF i > Len(s) THEN Append(acc, cur)
    ELSE IF Char(s, i) = "/" THEN SplitFrom(s, i + 1, "", Append(acc, cur))
    ELSE SplitFrom(s, i + 1, cur \o Char(s, i), acc)

\* s.split('/')
Split(s) == SplitFrom(s, 1, "", <<>>)

RECURSIVE Join(_)
\* '/'.join(parts)
Join(parts) ==
    IF Len(parts) = 0 THEN ""
    ELSE IF Len(parts) = 1 THEN parts[1]
    ELSE parts[1] \o "/" \o Join(Tail(parts))

DecimalDigits == "0123456789"

RECURSIVE ToStr(_)
\* str(n) for n >= 0
ToStr(n) ==
    IF n < 10 THEN Char(DecimalDigits, n + 1)
    ELSE ToStr(n \div 10) \o Char(DecimalDigits, (n % 10) + 1)

RECURSIVE Rep(_, _)
\* s * n
Rep(s, n) == IF n = 0 THEN "" ELSE s \o Rep(s, n - 1)

\* s.strip() for the blanks the card builders add
RECURSIVE RStrip(_)
RStrip(s) ==
    IF s # "" /\ (Char(s, Len(s)) = " " \/ Char(s, Len(s)) = "\n")
    THEN RStrip(Take(s, Len(s) - 1)) ELSE s

RECURSIVE SelectSeqBy(_, _)
\* [r for r in rs if r.is_available == avail]
SelectSeqBy(rs, avail) ==
    IF Len(rs) = 0 THEN <<>>
    ELSE IF rs[1].is_available = avail
         THEN <<rs[1]>> \o SelectSeqBy(Tail(rs), avail)
         ELSE SelectSeqBy(Tail(rs), avail)

(***************************************************************************)
(* The targets the model runs over, and the answers of the outside world.   *)
(***************************************************************************)
\* the targets of the runs: a page, a document, a document on the domain that
\* blocks automatic requests, a document with a query string, and a document
\* whose path (not host) holds that domain's name
Urls ==
    << "https://ok.example",
       "https://broken.example/file.pdf",
       "https://www.igualdadenlaempresa.es/docs/H.xlsx",
       "https://x.es/a.PDF?v=1",
       "https://x.es/igualdadenlaempresa.es/b.zip" >>

\* the targets of the card builders: the above shapes, paths of 39, 40 and 65
\* characters, targets with fewer than 3 '/'-separated segments (20 and 60
\* characters long), and a host of 70 characters
CardUrls ==
    << "https://ok.example",
       "https://broken.example/file.pdf",
       "https://x.es/" \o Rep("a", 39),
       "https://x.es/" \o Rep("a", 40),
       "https://x.es/" \o Rep("dir/", 15) \o "f.pdf",
       "ok.example/index.htm",
       "intranet/" \o Rep("b", 51),
       "https://" \o Rep("sub.", 15) \o "example.es/x" >>

UrlSet == {Urls[i] : i \in 1..Len(Urls)} \cup {CardUrls[i] : i \in 1..Len(CardUrls)}

\* what the browser can show after driver.get: title and page_source
Pages ==
    << [title |-> "Inicio", source |-> "<html><body>hola</body></html>"],
       [title |-> "", source |-> "<html>" \o Rep("<p>texto</p>", 10) \o "</html>"],
       [title |-> "", source |-> "<html></html>"],
       [title |-> "Oops", source |-> "<html><h1>404 Not Found</h1></html>"],
       [title |-> Rep("Portal ", 8),
        source |-> "<html>" \o Rep("<p>texto</p>", 90) \o "<p>page not found</p></html>"],
       [title |-> "Doc", source |-> "<html><p>Error</p></html>"] >>

\* the outcomes of driver.get(url) followed by the reads of title and page_source:
\* a page, selenium's TimeoutException, a WebDriverException, another Exception
NavResps ==
    [kind : {"page"}, page : 1..Len(Pages)]
        \cup [kind : {"timeout", "wderr", "exc"}, page : {0}]

\* HTTP statuses a server answers with (redirects are followed by requests)
Statuses == {200, 204, 404}

\* the outcomes of requests.head / requests.get: a response, requests' Timeout,
\* SSLError, another RequestException, an exception that is no RequestException
HttpResps ==
    [kind : {"status"}, code : Statuses]
        \cup [kind : {"timeout", "ssl", "conn", "exc"}, code : {0}]

NoResp == [kind |-> "none", code |-> 0]
NoNav == [kind |-> "none", page |-> 0]

\* the outcomes of requests.post to the webhook
PostResps ==
    [kind : {"status"}, code : {200, 202, 500}]
        \cup [kind : {"conn", "exc"}, code : {0}]

\* str(e) of the exceptions above
ErrText(kind) ==
    CASE kind = "ssl" -> "HTTPSConnectionPool(host='broken.example', port=443): Max retries exceeded (Caused by SSLError(SSLCertVerificationError))"
      [] kind = "conn" -> "Connection refused"
      [] kind = "wderr" -> "Message: unknown error: net::ERR_NAME_NOT_RESOLVED (Session info: headless chrome=120.0.6099.109) Stacktrace: #0 0x55d4"
      [] OTHER -> "list index out of range"

(***************************************************************************)
(* MonitorResult and the three ways check_url checks a target.              *)
(***************************************************************************)
MonitorResult(url, is_available, message) ==
    [url |-> url, is_available |-> is_available, message |-> message]

\* what one check_url call did: the checker taken, the requests made and the
\* answers they got
Trace(route, head, get, nav) ==
    [route |-> route,
     heads |-> IF head.kind = "none" THEN 0 ELSE 1,
     gets |-> IF get.kind = "none" THEN 0 ELSE 1,
     navs |-> IF nav.kind = "none" THEN 0 ELSE 1,
     head |-> head, get |-> get, nav |-> nav]

Returned(result, tr) == [raised |-> FALSE, result |-> result, tr |-> tr]
Raised(url, tr) == [raised |-> TRUE, result |-> MonitorResult(url, FALSE, ""), tr |-> tr]

file_extensions == {".pdf", ".xlsx", ".xls", ".xlsm", ".zip", ".doc", ".docx"}
problematic_domains == {"igualdadenlaempresa.es"}
error_indicators == {"404", "not found", "no encontrado", "error"}
critical_errors ==
    {"404 not found", "500 internal server error", "503 service unavailable",
     "page not found", "pagina no encontrada"}

\* check_url's test: url.lower().endswith(file_extensions)
IsFileUrl(url) == \E e \in file_extensions : EndsWith(Lower(url), e)

\* _check_file_url's test: any(domain in url for domain in problematic_domains)
IsProblematic(url) == \E d \in problematic_domains : Contains(url, d)

\* the checker check_url comes to for url
RouteOfUrl(url) ==
    IF IsFileUrl(url)
    THEN IF IsProblematic(url) THEN "file_nav" ELSE "file_req"
    ELSE "web"

\* RouteOfUrl over the targets of the model, computed once
RouteOf == [u \in UrlSet |-> RouteOfUrl(u)]

\* _check_file_url on a loaded page: the indicators in page_source.lower()[:500]
FilePage(page) ==
    IF \E ind \in error_indicators : Contains(Take(Lower(page.source), FileWindow), ind)
    THEN [ok |-> FALSE, msg |-> "Archivo no disponible (error en pagina)"]
    ELSE [ok |-> TRUE, msg |-> "Archivo disponible (verificado con navegador)"]

\* a bug: the title is looked at before the critical errors
WebPageTitleFirst(page) ==
    IF Len(page.title) > 0
    THEN [ok |-> TRUE, msg |-> "Web disponible - '" \o Take(page.title, TitleSlice) \o "'"]
    ELSE IF \E err \in critical_errors : Contains(Take(Lower(page.source), WebWindow), err)
    THEN [ok |-> FALSE, msg |-> "Pagina con error critico detectado"]
    ELSE IF Len(page.source) > MinMarkup
    THEN [ok |-> TRUE, msg |-> "Web disponible (sin titulo)"]
    ELSE [ok |-> FALSE, msg |-> "Web sin contenido"]

\* _check_web_url on a loaded page
WebPage(page) ==
    IF \E err \in critical_errors : Contains(Take(Lower(page.source), WebWindow), err)
    THEN [ok |-> FALSE, msg |-> "Pagina con error critico detectado"]
    ELSE IF Len(page.title) > 0
    THEN [ok |-> TRUE, msg |-> "Web disponible - '" \o Take(page.title, TitleSlice) \o "'"]
    ELSE IF Len(page.source) > MinMarkup
    THEN [ok |-> TRUE, msg |-> "Web disponible (sin titulo)"]
    ELSE [ok |-> FALSE, msg |-> "Web sin contenido"]

\* FilePage and WebPage over the pages of the model, computed once
FileVerdict == [p \in 1..Len(Pages) |-> FilePage(Pages[p])]
WebVerdict == [p \in 1..Len(Pages) |-> WebPage(Pages[p])]

\* _check_file_url, the branch of the problematic domains (driver.get)
CheckFileNav(url, nav) ==
    LET tr == Trace("file_nav", NoResp, NoResp, nav) IN
    CASE nav.kind = "page" ->
           Returned(MonitorResult(url, FileVerdict[nav.page].ok, FileVerdict[nav.page].msg), tr)
      [] nav.kind = "timeout" ->
           Returned(MonitorResult(url, FALSE,
               "Timeout al acceder al archivo (>" \o ToStr(TIMEOUT_SECONDS) \o "s)"), tr)
      [] OTHER ->
           Returned(MonitorResult(url, FALSE,
               "Error al verificar archivo: " \o Take(ErrText(nav.kind), ErrSliceFile)), tr)

\* a bug: no except clause for RequestException, so a connection error escapes
FileReqFaultConnEscapes(url, kind, tr) ==
    CASE kind = "timeout" ->
           Returned(MonitorResult(url, FALSE,
               "Timeout al acceder al archivo (>" \o ToStr(FILE_TIMEOUT) \o "s)"), tr)
      [] kind = "ssl" ->
           Returned(MonitorResult(url, FALSE,
               "Error SSL: " \o Take(ErrText(kind), ErrSliceFile)), tr)
      [] OTHER -> Raised(url, tr)

\* what _check_file_url's except clauses make of an exception of requests
FileReqFault(url, kind, tr) ==
    CASE kind = "timeout" ->
           Returned(MonitorResult(url, FALSE,
               "Timeout al acceder al archivo (>" \o ToStr(FILE_TIMEOUT) \o "s)"), tr)
      [] kind = "ssl" ->
           Returned(MonitorResult(url, FALSE,
               "Error SSL: " \o Take(ErrText(kind), ErrSliceFile)), tr)
      [] kind = "conn" ->
           Returned(MonitorResult(url, FALSE,
               "Error de conexion: " \o Take(ErrText(kind), ErrSliceFile)), tr)
      [] OTHER -> Raised(url, tr)

\* a bug: every status but 404 counts as success
IsSuccessStatusNot404(code) == code # 404

\* _check_file_url: response.status_code == 200
IsSuccessStatus(code) == code = HttpOk

\* _check_file_url, the branch of requests: head answers requests.head, get
\* answers requests.get when the code comes to call it
CheckFileReq(url, head, get) ==
    IF head.kind # "status"
    THEN FileReqFault(url, head.kind, Trace("file_req", head, NoResp, NoNav))
    ELSE IF IsSuccessStatus(head.code)
    THEN Returned(MonitorResult(url, TRUE,
             "Archivo disponible (HEAD: " \o ToStr(head.code) \o ")"),
             Trace("file_req", head, NoResp, NoNav))
    ELSE IF get.kind # "status"
    THEN FileReqFault(url, get.kind, Trace("file_req", head, get, NoNav))
    ELSE IF IsSuccessStatus(get.code)
    THEN Returned(MonitorResult(url, TRUE,
             "Archivo disponible (GET: " \o ToStr(get.code) \o ")"),
             Trace("file_req", head, get, NoNav))
    ELSE Returned(MonitorResult(url, FALSE, "Error HTTP " \o ToStr(get.code)),
             Trace("file_req", head, get, NoNav))

\* a bug: a navigation timeout counts as a warning and the page as available
WebTimeoutAsWarning(url) ==
    MonitorResult(url, TRUE, "Timeout al cargar pagina (>" \o ToStr(TIMEOUT_SECONDS) \o "s)")

\* _check_web_url's except TimeoutException clause
WebTimeoutResult(url) ==
    MonitorResult(url, FALSE, "Timeout al cargar pagina (>" \o ToStr(TIMEOUT_SECONDS) \o "s)")

\* _check_web_url
CheckWebUrl(url, nav) ==
    LET tr == Trace("web", NoResp, NoResp, nav) IN
    CASE nav.kind = "page" ->
           Returned(MonitorResult(url, WebVerdict[nav.page].ok, WebVerdict[nav.page].msg), tr)
      [] nav.kind = "timeout" -> Returned(WebTimeoutResult(url), tr)
      [] nav.kind = "wderr" ->
           Returned(MonitorResult(url, FALSE,
               "Error de navegador: " \o Take(ErrText(nav.kind), ErrSliceWeb)), tr)
      [] OTHER ->
           Returned(MonitorResult(url, FALSE,
               "Error inesperado: " \o Take(ErrText(nav.kind), ErrSliceWeb)), tr)

(***************************************************************************)
(* The card builders.                                                       *)
(***************************************************************************)
\* datetime.now().strftime('%d/%m/%Y %H:%M:%S'): the clock is not modelled
timestamp_str == "01/11/2026 08:00:00"

Fact(name, value) == [name |-> name, value |-> value]

NoCard == [themeColor |-> "", summary |-> "", title |-> "", facts |-> <<>>, actions |-> 0]

\* a bug: the ellipsis is put without the test of the length
EllipsizeAlways(path) == Take(path, PathKeep) \o "..."

\* _build_teams_card: if len(path) > 40: path = path[:37] + "..."
Ellipsize(path) ==
    IF Len(path) > PathLimit THEN Take(path, PathKeep) \o "..." ELSE path

\* _build_teams_card: '/'.join(...)[:40]
SlicePath(joined) == Take(joined, PathSlice)

\* _build_teams_card and _build_success_card: result.url[:50]
SliceUrl(url) == Take(url, DomainFallback)

\* _build_teams_card: the domain of a failed or working entry; the except
\* clause is taken when split('/') has no element [2]
DomainOfUrl(url) ==
    LET parts == Split(url) IN
    IF Len(parts) >= 3 THEN parts[3] ELSE SliceUrl(url)

\* _build_teams_card: the path of a failed entry
PathOfUrl(url) ==
    LET parts == Split(url) IN
    IF Len(parts) >= 3
    THEN Ellipsize("/" \o SlicePath(Join(Drop(parts, 3))))
    ELSE ""

\* _build_success_card: the domain of an entry
SuccessDomainOfUrl(url) ==
    LET parts == Split(url) IN
    IF Len(parts) > 2 THEN parts[3] ELSE url

\* the three derivations over the targets of the model, computed once
DomainOf == [u \in UrlSet |-> DomainOfUrl(u)]
PathOf == [u \in UrlSet |-> PathOfUrl(u)]
SuccessDomainOf == [u \in UrlSet |-> SuccessDomainOfUrl(u)]

\* _build_teams_card: the fact of the i-th failed entry
FailedFact(i, result) ==
    Fact("X " \o ToStr(i) \o ". " \o DomainOf[result.url],
         "@ " \o PathOf[result.url] \o "\n# *" \o result.message \o "*")

\* a bug: the slice is one entry longer than the cap of the overflow note
ShownFailedOneMore(failed) == Take(failed, FailedCap + 1)

\* _build_teams_card: failed_urls[:10]
ShownFailed(failed) == Take(failed, FailedCap)

\* _build_teams_card: the facts of the failed entries
FailedFacts(failed) ==
    [i \in 1..Len(ShownFailed(failed)) |-> FailedFact(i, ShownFailed(failed)[i])]

\* _build_teams_card: the note on the failed entries that are not shown
FailedOverflow(failed_count) ==
    IF failed_count > FailedCap
    THEN << Fact("!! Aviso:",
                 "Hay " \o ToStr(failed_count - FailedCap)
                     \o " URL(s) mas con problemas. Consultar logs de GitHub Actions.") >>
    ELSE << >>

RECURSIVE BatchText(_, _, _)
\* the urls_batch built from shown[lo..hi]
BatchText(shown, lo, hi) ==
    IF lo > hi THEN ""
    ELSE "V " \o DomainOf[shown[lo].url] \o "   " \o BatchText(shown, lo + 1, hi)

\* _build_teams_card: the facts listing working_urls[:8], four to a fact
WorkingFacts(working) ==
    LET shown == Take(working, WorkingCap)
        n == Len(shown)
        nb == (n + WorkingBatch - 1) \div WorkingBatch
    IN [b \in 1..nb |->
           Fact(" ", RStrip(BatchText(shown, (b - 1) * WorkingBatch + 1,
                                      Min(b * WorkingBatch, n))))]

\* _build_teams_card: the section on the results that are available
WorkingSection(all_results, success_count) ==
    IF success_count > 0
    THEN << Fact("----------------", "**URLs Funcionando:**") >>
         \o WorkingFacts(SelectSeqBy(all_results, TRUE))
         \o (IF success_count > WorkingCap
             THEN << Fact(" ", "*... y " \o ToStr(success_count - WorkingCap)
                                \o " mas funcionando correctamente*") >>
             ELSE << >>)
    ELSE << >>

\* a bug: the failed results are not subtracted
SuccessCountIsTotal(total, failed_count) == total

\* _build_teams_card: success_count
SuccessCount(total, failed_count) == total - failed_count

\* _build_teams_card
BuildTeamsCard(failed, all_results) ==
    LET total == Len(all_results)
        failed_count == Len(failed)
        success_count == SuccessCount(total, failed_count)
    IN [themeColor |-> "dc3545",
        summary |-> "!! " \o ToStr(failed_count) \o " de " \o ToStr(total)
                        \o " URLs no disponibles",
        title |-> "A ALERTA - " \o ToStr(failed_count) \o " URL(s) Requieren Atencion",
        facts |->
            << Fact("S Total verificadas:", ToStr(total)),
               Fact("V Disponibles:", "**" \o ToStr(success_count) \o "** URLs"),
               Fact("X Con problemas:", "**" \o ToStr(failed_count) \o "** URLs"),
               Fact("H Verificacion:", timestamp_str),
               Fact("----------------", "**URLs con Problemas:**") >>
            \o FailedFacts(failed)
            \o FailedOverflow(failed_count)
            \o WorkingSection(all_results, success_count),
        actions |-> 1]

RECURSIVE GroupText(_, _, _)
\* _build_success_card: the urls_text of results[lo..hi]
GroupText(rs, lo, hi) ==
    IF lo > hi THEN ""
    ELSE "V " \o SuccessDomainOf[rs[lo].url] \o "\n" \o GroupText(rs, lo + 1, hi)

\* _build_success_card
BuildSuccessCard(rs) ==
    LET total == Len(rs)
        ng == (total + SuccessBatch - 1) \div SuccessBatch
    IN [themeColor |-> "28a745",
        summary |-> "V " \o ToStr(total) \o " URLs funcionando correctamente",
        title |-> "V Monitor Diario - Sistema Operativo",
        facts |->
            << Fact("S Total verificadas:", ToStr(total)),
               Fact("V Estado general:", "**TODAS FUNCIONANDO CORRECTAMENTE**"),
               Fact("H Verificacion:", timestamp_str),
               Fact("----------------", "**URLs Verificadas:**") >>
            \o [g \in 1..ng |->
                   Fact("Grupo " \o ToStr(g) \o ":",
                        RStrip(GroupText(rs, (g - 1) * SuccessBatch + 1,
                                         Min(g * SuccessBatch, total))))],
        actions |-> 0]

\* send_teams_notification: its return value, or "raised" when the exception
\* is not a RequestException
SendTeamsNotification(resp) ==
    CASE resp.kind = "status" -> IF resp.code \in {200, 202} THEN "true" ELSE "false"
      [] resp.kind = "conn" -> "false"
      [] OTHER -> "raised"

(***************************************************************************)
(* WebMonitor.__init__ and the steps of WebMonitor.run.                     *)
(***************************************************************************)
\* the target lists of the model: every run of up to n consecutive targets of
\* Urls, taken cyclically from any position
TargetLists(n) ==
    { [i \in 1..len |-> Urls[((k + i - 2) % Len(Urls)) + 1]] :
        k \in 1..Len(Urls), len \in 0..n }

\* __init__, and the bench at rest
Init ==
    /\ pc = "idle"
    /\ runs = 0
    /\ urls = << >>
    /\ notify_always = TRUE
    /\ driver = 0
    /\ sessions = << >>
    /\ results = << >>
    /\ reqs = << >>
    /\ failed_urls = << >>
    /\ card = NoCard
    /\ posts = << >>
    /\ fault = "none"
    /\ exit_code = NoCode
    /\ cleanups = 0
    /\ quits = 0
    /\ tin = ""
    /\ tout = << >>

\* run is entered with its arguments; the locals of the previous run are gone
EnterRun(us, na) ==
    /\ runs' = runs + 1
    /\ urls' = us
    /\ notify_always' = na
    /\ results' = << >>
    /\ reqs' = << >>
    /\ failed_urls' = << >>
    /\ card' = NoCard
    /\ posts' = << >>
    /\ cleanups' = 0
    /\ quits' = 0

\* run's except clause: return 1, then the finally block
Except(phase) ==
    /\ fault' = phase
    /\ exit_code' = 1
    /\ pc' = "finally"

\* a bug: a browser is started only when self._driver holds none, so a later
\* run checks with the session that the run before it has quit
SetupDriverOkKeepsDriver(lists, limit) ==
    /\ pc = "idle"
    /\ runs < limit
    /\ \E us \in lists, na \in BOOLEAN : EnterRun(us, na)
    /\ sessions' = IF driver = 0 THEN Append(sessions, 0) ELSE sessions
    /\ driver' = IF driver = 0 THEN Len(sessions) + 1 ELSE driver
    /\ fault' = "none"
    /\ exit_code' = NoCode
    /\ pc' = "checking"
    /\ UNCHANGED <<tin, tout>>

\* run up to the loop: self._driver = self._setup_driver() succeeds
SetupDriverOk(lists, limit) ==
    /\ pc = "idle"
    /\ runs < limit
    /\ \E us \in lists, na \in BOOLEAN : EnterRun(us, na)
    /\ sessions' = Append(sessions, 0)
    /\ driver' = Len(sessions) + 1
    /\ fault' = "none"
    /\ exit_code' = NoCode
    /\ pc' = "checking"
    /\ UNCHANGED <<tin, tout>>

\* run up to the loop: _setup_driver raises, in webdriver.Chrome (no session
\* is created) or in set_page_load_timeout (the session exists and is the
\* local `driver` of _setup_driver only); self._driver is not assigned
SetupDriverFails(lists, limit) ==
    /\ pc = "idle"
    /\ runs < limit
    /\ \E us \in lists, na \in BOOLEAN : EnterRun(us, na)
    /\ \E created \in BOOLEAN :
          sessions' = IF created THEN Append(sessions, 0) ELSE sessions
    /\ Except("acquire")
    /\ UNCHANGED <<driver, tin, tout>>

\* a bug: results.insert(0, result) instead of results.append(result)
AfterCheckInsertsFirst(o) ==
    /\ reqs' = Append(reqs, o.tr)
    /\ IF o.raised
       THEN /\ Except("check")
            /\ UNCHANGED results
       ELSE /\ results' = << o.result >> \o results
            /\ UNCHANGED <<pc, fault, exit_code>>
    /\ UNCHANGED <<runs, urls, notify_always, driver, sessions, failed_urls, card,
                   posts, cleanups, quits, tin, tout>>

\* a bug: an exception that leaves check_url is swallowed in the loop, which
\* records an unavailable outcome and goes on
AfterCheckSwallows(o) ==
    /\ reqs' = Append(reqs, o.tr)
    /\ results' = Append(results, o.result)
    /\ UNCHANGED <<pc, fault, exit_code>>
    /\ UNCHANGED <<runs, urls, notify_always, driver, sessions, failed_urls, card,
                   posts, cleanups, quits, tin, tout>>

\* the loop body after check_url: results.append(result), or the exception
\* leaves the loop for the except clause
AfterCheck(o) ==
    /\ reqs' = Append(reqs, o.tr)
    /\ IF o.raised
       THEN /\ Except("check")
            /\ UNCHANGED results
       ELSE /\ results' = Append(results, o.result)
            /\ UNCHANGED <<pc, fault, exit_code>>
    /\ UNCHANGED <<runs, urls, notify_always, driver, sessions, failed_urls, card,
                   posts, cleanups, quits, tin, tout>>

\* one turn of the loop, check_url taking _check_web_url
CheckWeb ==
    /\ pc = "checking"
    /\ Len(results) < Len(urls)
    /\ RouteOf[urls[Len(results) + 1]] = "web"
    /\ \E nav \in NavResps : AfterCheck(CheckWebUrl(urls[Len(results) + 1], nav))

\* one turn of the loop, check_url taking _check_file_url and its browser branch
CheckFileByBrowser ==
    /\ pc = "checking"
    /\ Len(results) < Len(urls)
    /\ RouteOf[urls[Len(results) + 1]] = "file_nav"
    /\ \E nav \in NavResps : AfterCheck(CheckFileNav(urls[Len(results) + 1], nav))

\* one turn of the loop, check_url taking _check_file_url and its requests branch
CheckFileByRequests ==
    /\ pc = "checking"
    /\ Len(results) < Len(urls)
    /\ RouteOf[urls[Len(results) + 1]] = "file_req"
    /\ \E head \in HttpResps, get \in HttpResps :
          AfterCheck(CheckFileReq(urls[Len(results) + 1], head, get))

\* run: failed_urls = [r for r in results if not r.is_available]
FailedOf(rs) == SelectSeqBy(rs, FALSE)

\* the loop is over: the failed results are filtered
Filter ==
    /\ pc = "checking"
    /\ Len(results) = Len(urls)
    /\ failed_urls' = FailedOf(results)
    /\ pc' = "notify"
    /\ UNCHANGED <<runs, urls, notify_always, driver, sessions, results, reqs, card,
                   posts, fault, exit_code, cleanups, quits, tin, tout>>

\* self.send_teams_notification(card) and the return that follows it
SendAndReturn(c, resp, code) ==
    /\ posts' = Append(posts, [themeColor |-> c.themeColor, resp |-> resp,
                               sent |-> SendTeamsNotification(resp)])
    /\ IF SendTeamsNotification(resp) = "raised"
       THEN Except("dispatch")
       ELSE /\ exit_code' = code
            /\ pc' = "finally"
            /\ UNCHANGED fault

\* run: the value returned when failed_urls is empty
SuccessCode == 0

\* a bug: run returns 0 also when some target failed
FailureCodeAsSuccess == SuccessCode

\* run: the value returned when failed_urls is not empty
FailureCode == 1

\* run: if failed_urls: build the alert card, send it, return 1
NotifyFailure(resps) ==
    /\ pc = "notify"
    /\ failed_urls # << >>
    /\ card' = BuildTeamsCard(failed_urls, results)
    /\ \E resp \in resps : SendAndReturn(card', resp, FailureCode)
    /\ UNCHANGED <<runs, urls, notify_always, driver, sessions, results, reqs,
                   failed_urls, cleanups, quits, tin, tout>>

\* a bug: the success card is sent whatever notify_always says
NotifySuccessAlways(resps) ==
    /\ pc = "notify"
    /\ failed_urls = << >>
    /\ card' = BuildSuccessCard(results)
    /\ \E resp \in resps : SendAndReturn(card', resp, SuccessCode)
    /\ UNCHANGED <<runs, urls, notify_always, driver, sessions, results, reqs,
                   failed_urls, cleanups, quits, tin, tout>>

\* run: else, notify_always: build the success card, send it, return 0
NotifySuccess(resps) ==
    /\ pc = "notify"
    /\ failed_urls = << >>
    /\ notify_always
    /\ card' = BuildSuccessCard(results)
    /\ \E resp \in resps : SendAndReturn(card', resp, SuccessCode)
    /\ UNCHANGED <<runs, urls, notify_always, driver, sessions, results, reqs,
                   failed_urls, cleanups, quits, tin, tout>>

\* run: else, not notify_always: return 0
NoNotify ==
    /\ pc = "notify"
    /\ failed_urls = << >>
    /\ ~notify_always
    /\ exit_code' = SuccessCode
    /\ pc' = "finally"
    /\ UNCHANGED <<runs, urls, notify_always, driver, sessions, results, reqs,
                   failed_urls, card, posts, fault, cleanups, quits, tin, tout>>

\* a bug: the test of _cleanup inverted
CleanupQuitsInverted(d) == d = 0

\* _cleanup: is quit() called
CleanupQuits(d) == d # 0

\* the finally block: _cleanup, then run returns exit_code.  quit() may raise;
\* the except clause of _cleanup swallows it, so both outcomes leave the same
\* state
Cleanup ==
    /\ pc = "finally"
    /\ cleanups' = cleanups + 1
    /\ IF CleanupQuits(driver)
       THEN /\ sessions' = [sessions EXCEPT ![driver] = @ + 1]
            /\ quits' = quits + 1
       ELSE UNCHANGED <<sessions, quits>>
    /\ pc' = "idle"
    /\ UNCHANGED <<runs, urls, notify_always, driver, results, reqs, failed_urls,
                   card, posts, fault, exit_code, tin, tout>>

\* one run of a new WebMonitor
Next ==
    \/ SetupDriverOk(TargetLists(MaxTargets), 1)
    \/ SetupDriverFails(TargetLists(MaxTargets), 1)
    \/ CheckWeb
    \/ CheckFileByBrowser
    \/ CheckFileByRequests
    \/ Filter
    \/ NotifyFailure(PostResps)
    \/ NotifySuccess(PostResps)
    \/ NoNotify
    \/ Cleanup

Spec == Init /\ [][Next]_vars

(***************************************************************************)
(* The card builders over longer result lists: the run stands at the end    *)
(* of its loop, with any pattern of available and unavailable results.      *)
(***************************************************************************)
\* a check_url outcome for url with the given availability
OutcomeFor(url, avail) ==
    CASE RouteOf[url] = "web" ->
           CheckWebUrl(url, IF avail THEN [kind |-> "page", page |-> 1]
                                     ELSE [kind |-> "timeout", page |-> 0])
      [] RouteOf[url] = "file_nav" ->
           CheckFileNav(url, IF avail THEN [kind |-> "page", page |-> 1]
                                      ELSE [kind |-> "page", page |-> 4])
      [] OTHER ->
           CheckFileReq(url, [kind |-> "status", code |-> IF avail THEN 200 ELSE 404],
                             [kind |-> "status", code |-> 404])

InitCard ==
    /\ pc = "checking"
    /\ runs = 1
    /\ notify_always = TRUE
    /\ driver = 1
    /\ sessions = << 0 >>
    /\ \E n \in 0..MaxCardResults : \E avail \in [1..n -> BOOLEAN] :
          /\ urls = [i \in 1..n |-> CardUrls[((i - 1) % Len(CardUrls)) + 1]]
          /\ results = [i \in 1..n |->
                OutcomeFor(CardUrls[((i - 1) % Len(CardUrls)) + 1], avail[i]).result]
          /\ reqs = [i \in 1..n |->
                OutcomeFor(CardUrls[((i - 1) % Len(CardUrls)) + 1], avail[i]).tr]
    /\ failed_urls = << >>
    /\ card = NoCard
    /\ posts = << >>
    /\ fault = "none"
    /\ exit_code = NoCode
    /\ cleanups = 0
    /\ quits = 0
    /\ tin = ""
    /\ tout = << >>

\* the webhook accepts the card
Accepted == {[kind |-> "status", code |-> 200]}

NextCard ==
    \/ Filter
    \/ NotifyFailure(Accepted)
    \/ NotifySuccess(Accepted)

SpecCard == InitCard /\ [][NextCard]_vars

(***************************************************************************)
(* The truncation steps of the card builders, each applied to a string and  *)
(* then to its own result.                                                  *)
(***************************************************************************)
TruncSteps == {"ellipsize", "slice_path", "slice_url"}

TruncStep(step, s) ==
    CASE step = "ellipsize" -> Ellipsize(s)
      [] step = "slice_path" -> SlicePath(s)
      [] OTHER -> SliceUrl(s)

TruncInputs ==
    {Take(Rep("/seg", MaxStrLen), n) : n \in 0..MaxStrLen}
        \cup {Rep("a", n) : n \in 0..MaxStrLen}

InitTrunc ==
    /\ pc = "idle"
    /\ runs = 0
    /\ urls = << >>
    /\ notify_always = TRUE
    /\ driver = 0
    /\ sessions = << >>
    /\ results = << >>
    /\ reqs = << >>
    /\ failed_urls = << >>
    /\ card = NoCard
    /\ posts = << >>
    /\ fault = "none"
    /\ exit_code = NoCode
    /\ cleanups = 0
    /\ quits = 0
    /\ tin \in TruncInputs
    /\ tout = << >>

Truncate ==
    /\ Len(tout) = 0
    /\ \E step \in TruncSteps :
          tout' = << [step |-> step, value |-> TruncStep(step, tin)] >>
    /\ UNCHANGED <<pc, runs, urls, notify_always, driver, sessions, results, reqs,
                   failed_urls, card, posts, fault, exit_code, cleanups, quits, tin>>

TruncateAgain ==
    /\ Len(tout) = 1
    /\ tout' = Append(tout, [step |-> tout[1].step,
                             value |-> TruncStep(tout[1].step, tout[1].value)])
    /\ UNCHANGED <<pc, runs, urls, notify_always, driver, sessions, results, reqs,
                   failed_urls, card, posts, fault, exit_code, cleanups, quits, tin>>

NextTrunc == Truncate \/ TruncateAgain

SpecTrunc == InitTrunc /\ [][NextTrunc]_vars

(***************************************************************************)
(* Several calls of run on one WebMonitor, one after the other: self._driver *)
(* keeps its value from one call to the next.                               *)
(***************************************************************************)
MaxRuns == 2

NextRuns ==
    \/ SetupDriverOk(TargetLists(1), MaxRuns)
    \/ SetupDriverFails(TargetLists(1), MaxRuns)
    \/ CheckWeb
    \/ CheckFileByBrowser
    \/ CheckFileByRequests
    \/ Filter
    \/ NotifyFailure(PostResps)
    \/ NotifySuccess(PostResps)
    \/ NoNotify
    \/ Cleanup

SpecRuns == Init /\ [][NextRuns]_vars

(***************************************************************************)
(* Properties.                                                              *)
(***************************************************************************)
\* run has returned
RunReturned == pc = "idle" /\ runs > 0

\* the loop ended and failed_urls was computed
Aggregated == runs > 0 /\ pc \in {"notify", "finally", "idle"} /\ fault \notin {"acquire", "check"}

AnyUnavailable == \E i \in 1..Len(results) : ~results[i].is_available

NumUnavailable == Cardinality({i \in 1..Len(results) : ~results[i].is_available})

NumAvailable == Cardinality({i \in 1..Len(results) : results[i].is_available})

C2_QuitExactlyOnce == RunReturned => quits = 1

\* C2 amended: in a run, _cleanup is called exactly once and only at the end,
\* and quit() at most once; quit() is called exactly once when the session
\* was acquired, whichever later phase a fault occurs in, and is not called
\* when the acquisition failed on a new WebMonitor.
C2_QuitOnceIfAcquired ==
    /\ cleanups <= 1
    /\ quits <= 1
    /\ pc # "idle" => (cleanups = 0 /\ quits = 0)
    /\ RunReturned =>
          /\ cleanups = 1
          /\ fault # "acquire" => quits = 1
          /\ fault = "acquire" => quits = 0

\* a run whose notification raised has returned, with one quit()
C2_Witness == RunReturned /\ fault = "dispatch" /\ quits = 1 /\ cleanups = 1

\* the faults C3 names: a transport fault of requests.head or requests.get, a
\* timeout or another exception of the browser
NamedFault(tr) ==
    \/ /\ tr.route = "file_req"
       /\ \/ tr.head.kind \in {"timeout", "ssl", "conn"}
          \/ tr.get.kind \in {"timeout", "ssl", "conn"}
    \/ /\ tr.route \in {"web", "file_nav"}
       /\ tr.nav.kind \in {"timeout", "wderr", "exc"}

\* C3: a transport fault of the requests checker and a timeout or session
\* fault of the browser checker never leave check_url: the target gets an
\* unavailable outcome, the run is not aborted by it, and a run that was not
\* aborted has an outcome for every target.
C3_FaultsAbsorbed ==
    /\ \A i \in 1..Len(reqs) :
          NamedFault(reqs[i]) =>
              /\ i <= Len(results)
              /\ results[i].url = urls[i]
              /\ ~results[i].is_available
    /\ fault = "check" => ~NamedFault(reqs[Len(reqs)])
    /\ (RunReturned /\ fault \notin {"acquire", "check"}) => Len(results) = Len(urls)

\* the first target's navigation timed out, and the loop went on to the
\* second target, whose HEAD request failed in TLS
C3_Witness ==
    /\ Len(results) = 2
    /\ reqs[1].route = "web"
    /\ reqs[1].nav.kind = "timeout"
    /\ reqs[2].route = "file_req"
    /\ reqs[2].head.kind = "ssl"
    /\ fault = "none"

\* C4: when requests.head times out, requests.get is called, and if it
\* answers 200 the outcome is available and its message names GET.
C4_HeadTimeoutFallsBackToGet ==
    \A i \in 1..Len(reqs) :
        (reqs[i].route = "file_req" /\ reqs[i].head.kind = "timeout") =>
            /\ reqs[i].gets = 1
            /\ reqs[i].get = [kind |-> "status", code |-> 200] =>
                  /\ i <= Len(results)
                  /\ results[i].is_available
                  /\ Contains(results[i].message, "GET")

Is2xx(code) == code \in 200..299

Is200(code) == code = 200

\* the decision of the requests checker when HEAD and GET answer with a
\* status, for a given notion of success
StatusDecision(Success(_)) ==
    \A i \in 1..Len(results) :
        (reqs[i].route = "file_req" /\ reqs[i].head.kind = "status") =>
            /\ reqs[i].heads = 1
            /\ reqs[i].gets <= 1
            /\ reqs[i].navs = 0
            /\ Success(reqs[i].head.code) =>
                  /\ reqs[i].gets = 0
                  /\ results[i].is_available
                  /\ Contains(results[i].message, "HEAD")
            /\ ~Success(reqs[i].head.code) =>
                  /\ reqs[i].gets = 1
                  /\ reqs[i].get.kind = "status" =>
                        /\ results[i].is_available <=> Success(reqs[i].get.code)
                        /\ ~Success(reqs[i].get.code) =>
                              Contains(results[i].message, ToStr(reqs[i].get.code))

C6_InOrder ==
    /\ Len(results) <= Len(urls)
    /\ \A i \in 1..Len(results) : results[i].url = urls[i]
    /\ Aggregated => Len(results) = Len(urls)

C6_Kept ==
    pc # "idle" =>
        /\ Len(results') >= Len(results)
        /\ \A i \in 1..Len(results) : results'[i] = results[i]

\* C6: the results hold one outcome per target in the order of urls (the
\* i-th outcome is of the i-th url, and after the loop there are as many as
\* targets), and no step of the run changes an outcome that is in results.
C6_OneOutcomePerTargetInOrder == [](C6_InOrder) /\ [][C6_Kept]_vars

\* the loop ended over two different targets
C6_Witness ==
    /\ pc = "notify"
    /\ Len(results) = 2
    /\ results[1].url # results[2].url
    /\ results[1].url = urls[1]
    /\ results[2].url = urls[2]

\* the card built is the alert card of _build_teams_card
AlertCardBuilt == card.themeColor = "dc3545"

\* C7: once failed_urls is computed, the failed and the available outcomes
\* add up to the total, which is the number of outcomes, and the alert card
\* reports these three numbers as its total, available and unavailable counts.
C7_CountsAddUp ==
    Aggregated =>
        /\ Len(failed_urls) = NumUnavailable
        /\ Len(SelectSeqBy(results, TRUE)) = NumAvailable
        /\ Len(failed_urls) + Len(SelectSeqBy(results, TRUE)) = Len(results)
        /\ Len(results) = Len(urls)
        /\ AlertCardBuilt =>
              /\ card.facts[1].value = ToStr(Len(results))
              /\ card.facts[2].value = "**" \o ToStr(NumAvailable) \o "** URLs"
              /\ card.facts[3].value = "**" \o ToStr(NumUnavailable) \o "** URLs"

\* an alert card over 12 outcomes of which 5 are unavailable
C7_Witness ==
    /\ AlertCardBuilt
    /\ Len(results) = 12
    /\ NumUnavailable = 5
    /\ card.facts[2].value = "**7** URLs"

\* the facts of the card that are entries of single failed outcomes
EntryFacts ==
    {j \in 1..Len(card.facts) :
        \E k \in 1..Len(results) : StartsWith(card.facts[j].name, "X " \o ToStr(k) \o ". ")}

\* the facts of the card that are the note on the failed outcomes not shown
OverflowFacts == {j \in 1..Len(card.facts) : card.facts[j].name = "!! Aviso:"}

\* the index in results of the j-th unavailable outcome
NthUnavailable(j) ==
    CHOOSE i \in 1..Len(results) :
        /\ ~results[i].is_available
        /\ Cardinality({k \in 1..i : ~results[k].is_available}) = j

\* the shape of the alert card for an entry cap K
CardShape(K) ==
    AlertCardBuilt =>
        /\ Cardinality(EntryFacts) = Min(NumUnavailable, K)
        /\ \A j \in 1..Min(NumUnavailable, K) :
              /\ 5 + j \in EntryFacts
              /\ card.facts[5 + j].name
                    = "X " \o ToStr(j) \o ". " \o DomainOf[results[NthUnavailable(j)].url]
              /\ EndsWith(card.facts[5 + j].value,
                          "# *" \o results[NthUnavailable(j)].message \o "*")
        /\ IF NumUnavailable > K
           THEN /\ Cardinality(OverflowFacts) = 1
                /\ \A j \in OverflowFacts :
                      StartsWith(card.facts[j].value,
                                 "Hay " \o ToStr(NumUnavailable - K) \o " URL(s) mas ")
           ELSE OverflowFacts = {}

\* C8 as stated: min(F, K) entries, the first failed outcomes in order, one
\* overflow fact stating F - K more when F > K and none otherwise; and with
\* a cap of 8, 12 failing targets give 8 entries and a note of 4 more.
C8_TwelveGiveEightAndFourMore ==
    /\ CardShape(FailedCap)
    /\ (AlertCardBuilt /\ NumUnavailable = 12) =>
          /\ Cardinality(EntryFacts) = 8
          /\ \A j \in OverflowFacts : StartsWith(card.facts[j].value, "Hay 4 URL(s) mas ")

\* C8 amended: the same shape with the cap of the code, 10: 12 failing
\* targets give 10 entries and one overflow fact stating 2 more.
C8_TwelveGiveTenAndTwoMore ==
    /\ CardShape(FailedCap)
    /\ (AlertCardBuilt /\ NumUnavailable = 12) =>
          /\ Cardinality(EntryFacts) = 10
          /\ Cardinality(OverflowFacts) = 1
          /\ \A j \in OverflowFacts : StartsWith(card.facts[j].value, "Hay 2 URL(s) mas ")

\* an alert card built from 12 unavailable outcomes
C8_Witness == AlertCardBuilt /\ NumUnavailable = 12 /\ Len(results) = 12

\* the domain of a target as split('/') gives it, with nothing cut
FullDomain(url) ==
    LET parts == Split(url) IN IF Len(parts) >= 3 THEN parts[3] ELSE url

\* the path of a target as split('/') gives it, with nothing cut
FullPath(url) ==
    LET parts == Split(url) IN
    IF Len(parts) >= 3 THEN "/" \o Join(Drop(parts, 3)) ELSE ""

\* C9 (the part on the ellipsis): in the entries of the alert card, a domain
\* or a path that is shown shorter than the target's ends in "...".
C9_ShortenedEndsInEllipsis ==
    AlertCardBuilt =>
        \A j \in 1..Min(Len(failed_urls), FailedCap) :
            /\ \/ card.facts[5 + j].name
                     = "X " \o ToStr(j) \o ". " \o FullDomain(failed_urls[j].url)
               \/ EndsWith(card.facts[5 + j].name, "...")
            /\ \/ StartsWith(card.facts[5 + j].value,
                             "@ " \o FullPath(failed_urls[j].url) \o "\n")
               \/ Contains(card.facts[5 + j].value, "...\n# *")

\* C10: each truncation step of the card builder (the ellipsis on a path of
\* more than 40 characters, the slice [:40] of the path, the slice [:50] of
\* the url), applied to a value it produced, gives that value again.
C10_TruncationIdempotent ==
    Len(tout) = 2 => tout[2].value = tout[1].value

\* a path of more than 40 characters was cut with the ellipsis, and cut again
C10_Witness ==
    /\ Len(tout) = 2
    /\ tout[1].step = "ellipsize"
    /\ Len(tin) > PathLimit
    /\ tout[1].value # tin
    /\ EndsWith(tout[1].value, "...")

\* the colours that tell the two cards apart
AlertColor == BuildTeamsCard(<< >>, << >>).themeColor
SuccessColor == BuildSuccessCard(<< >>).themeColor

\* send_teams_notification was called with the alert card, the success card
AlertDispatched == \E i \in 1..Len(posts) : posts[i].themeColor = AlertColor
SuccessDispatched == \E i \in 1..Len(posts) : posts[i].themeColor = SuccessColor

\* run is past its notification step
PastNotify == Aggregated /\ pc \in {"finally", "idle"}

\* C11: a run calls send_teams_notification at most once, and never before the
\* results are aggregated; past the notification step the alert card was
\* dispatched if and only if some outcome is unavailable, the success card if
\* and only if no outcome is unavailable and notify_always is set, and with all
\* targets available and notify_always unset nothing was dispatched and the
\* exit code is 0.
C11_AtMostOneCard ==
    /\ Len(posts) <= 1
    /\ ~PastNotify => posts = << >>
    /\ PastNotify =>
          /\ AlertDispatched <=> AnyUnavailable
          /\ SuccessDispatched <=> (~AnyUnavailable /\ notify_always)
          /\ (~AnyUnavailable /\ ~notify_always) => (posts = << >> /\ exit_code = SuccessCode)

\* a run over two targets, both available, with notify_always unset has
\* returned 0 without a dispatch
C11_Witness ==
    /\ RunReturned
    /\ Len(results) = 2
    /\ ~AnyUnavailable
    /\ ~notify_always
    /\ posts = << >>
    /\ exit_code = SuccessCode

\* the exit code that the outcomes alone give
CodeOfOutcomes == IF AnyUnavailable THEN FailureCode ELSE SuccessCode

\* the dispatch of the run failed: the webhook answered with a status other
\* than 200 and 202, or requests.post raised
DeliveryFailed == Len(posts) = 1 /\ posts[1].sent # "true"

\* C12 as stated: a failed delivery of the notification, whatever its kind,
\* leaves an outcome for every target and the exit code that the outcomes
\* alone give.
C12_DeliveryFailureKeepsExitCode ==
    (RunReturned /\ DeliveryFailed) =>
        /\ Len(results) = Len(urls)
        /\ exit_code = CodeOfOutcomes

\* the length of the part of url before its first '?' or '#'
PathEnd(url) ==
    LET marks == {i \in 1..Len(url) : Char(url, i) \in {"?", "#"}}
    IN IF marks = {} THEN Len(url)
       ELSE (CHOOSE i \in marks : \A j \in marks : i <= j) - 1

\* the url without its query string and fragment
BeforeQuery(url) == Take(url, PathEnd(url))

\* the targets whose path ends in a document extension, letter case ignored
PathIsDocument ==
    [u \in UrlSet |-> \E e \in file_extensions : EndsWith(Lower(BeforeQuery(u)), e)]

\* check_url took _check_file_url for the i-th target
CheckedAsFile(i) == reqs[i].route \in {"file_nav", "file_req"}

\* C13 as stated: a target is checked as a document exactly when the part of
\* its URL before any query string or fragment ends, letter case ignored, in
\* one of the seven document extensions.
C13_DocumentByPathExtension ==
    \A i \in 1..Len(reqs) : CheckedAsFile(i) <=> PathIsDocument[urls[i]]

\* the host of url: its third '/'-separated segment
HostOfUrl(url) == IF Len(Split(url)) >= 3 THEN Split(url)[3] ELSE ""

\* the host of url is one of the problematic domains or a subdomain of one
HostIsProblematic(url) ==
    \E d \in problematic_domains :
        HostOfUrl(url) = d \/ EndsWith(HostOfUrl(url), "." \o d)

\* the checker C15 names for a target, from check_url's own test for documents
\* and from the target's host
RouteByHost ==
    [u \in UrlSet |->
        IF ~IsFileUrl(u) THEN "web"
        ELSE IF HostIsProblematic(u) THEN "file_nav" ELSE "file_req"]

\* the i-th target was checked by one navigation and no HTTP request
OneNavigation(i) == reqs[i].navs = 1 /\ reqs[i].heads = 0 /\ reqs[i].gets = 0

\* the i-th target was checked by HEAD, perhaps GET, and no navigation
HeadGetOnly(i) == reqs[i].navs = 0 /\ reqs[i].heads = 1 /\ reqs[i].gets <= 1

\* C15 as stated: every checked target is checked by one checker: a page by
\* one navigation; a document whose host is a problematic domain by one
\* navigation and no HEAD or GET; any other document by HEAD/GET and no
\* navigation, also when a problematic domain's name occurs in its URL outside
\* the host.
C15_OneCheckerByHost ==
    \A i \in 1..Len(reqs) :
        /\ reqs[i].route = RouteByHost[urls[i]]
        /\ reqs[i].route \in {"web", "file_nav"} => OneNavigation(i)
        /\ reqs[i].route = "file_req" => HeadGetOnly(i)

\* the sessions created by webdriver.Chrome and not quit so far
LiveSessions == {s \in 1..Len(sessions) : sessions[s] = 0}

\* C14 as stated: when the acquisition of the session fails, no target is
\* checked, no notification is dispatched, the exit code is 1, and the
\* teardown is a no-op (quit() is not called) because no session exists.
C14_AcquireFailureNoOp ==
    fault = "acquire" =>
        /\ results = << >>
        /\ reqs = << >>
        /\ posts = << >>
        /\ exit_code = FailureCode
        /\ quits = 0
        /\ LiveSessions = {}

\* what C16 looks at in a loaded page: a phrase of the checker within its
\* window of the lowercased markup, a title, markup of more than 100 characters
PageFacts ==
    [p \in 1..Len(Pages) |->
        [critical |-> \E e \in critical_errors :
                          Contains(Take(Lower(Pages[p].source), WebWindow), e),
         indicator |-> \E e \in error_indicators :
                          Contains(Take(Lower(Pages[p].source), FileWindow), e),
         beyond |-> /\ \E e \in critical_errors : Contains(Lower(Pages[p].source), e)
                    /\ ~\E e \in critical_errors :
                          Contains(Take(Lower(Pages[p].source), WebWindow), e),
         titled |-> Pages[p].title # "",
         long |-> Len(Pages[p].source) > MinMarkup]]

\* the decision of C16 for page p, phrase telling whether a phrase of the
\* checker is within its window
RenderDecision(p, phrase) ==
    IF phrase THEN FALSE
    ELSE IF PageFacts[p].titled THEN TRUE
    ELSE PageFacts[p].long

\* the i-th target was checked with the browser and its navigation completed
Rendered(i) ==
    /\ i <= Len(results)
    /\ reqs[i].route \in {"web", "file_nav"}
    /\ reqs[i].nav.kind = "page"

\* the phrase test of the checker that rendered the i-th target
PhraseSeen(i) ==
    IF reqs[i].route = "web" THEN PageFacts[reqs[i].nav.page].critical
    ELSE PageFacts[reqs[i].nav.page].indicator

NavTimedOut(i) == reqs[i].route \in {"web", "file_nav"} /\ reqs[i].nav.kind = "timeout"

CauseOf(i) ==
    LET tr == reqs[i]
        last == IF tr.get.kind # "none" THEN tr.get ELSE tr.head
    IN IF tr.route = "file_req"
       THEN CASE last.kind = "timeout" -> "TransportTimeout"
              [] last.kind = "ssl" -> "TlsFailure"
              [] last.kind = "conn" -> "TransportFailure"
              [] OTHER -> "HttpStatusFailure"
       ELSE CASE tr.nav.kind = "timeout" -> "RenderTimeout"
              [] tr.nav.kind = "page" -> "ContentError"
              [] OTHER -> "RenderFault"

\* the length of the fixed text a message starts with: the text up to the
\* first number, or up to the ': ' that the text of an exception follows
PrefixLen(msg) ==
    LET cuts == {i - 1 : i \in {k \in 1..Len(msg) : Contains(DecimalDigits, Char(msg, k))}}
                \cup {i + 1 : i \in {k \in 1..(Len(msg) - 1) : SubSeq(msg, k, k + 1) = ": "}}
    IN IF cuts = {} THEN Len(msg)
       ELSE CHOOSE c \in cuts : \A d \in cuts : c <= d

\* the text of a message before its variable part
DetailPrefix(msg) == Take(msg, PrefixLen(msg))

\* C18 as stated: the messages of two unavailable outcomes of different cause
\* classes start with different fixed texts.
C18_DistinctPrefixPerCause ==
    \A i, j \in 1..Len(results) :
        (~results[i].is_available /\ ~results[j].is_available /\ CauseOf(i) # CauseOf(j))
            => DetailPrefix(results[i].message) # DetailPrefix(results[j].message)

\* self._driver is a session that was acquired and not released yet
SessionHeld == driver # 0 /\ sessions[driver] = 0

\* a step that checks a target, attempts a dispatch, releases a session
CheckStep == Len(reqs') > Len(reqs)
DispatchStep == Len(posts') > Len(posts)
ReleaseStep == sessions' # sessions /\ Len(sessions') = Len(sessions)

\* the order of C19 over one step
C19_StepOrder ==
    /\ CheckStep => (SessionHeld /\ SessionHeld')
    /\ DispatchStep => (SessionHeld /\ SessionHeld' /\ Len(results) = Len(urls))
    /\ ReleaseStep => (pc = "finally" /\ pc' = "idle" /\ reqs' = reqs /\ posts' = posts)
    /\ (RunReturned /\ (CheckStep \/ DispatchStep)) => runs' > runs

FewSegments == [u \in UrlSet |-> Len(Split(u)) < 3]

\* the domain C20 gives a target: its third segment, or the raw url cut to 50
\* characters
DomainByClaim == [u \in UrlSet |-> IF FewSegments[u] THEN Take(u, 50) ELSE Split(u)[3]]

SuccessCardBuilt == card.themeColor = SuccessColor

\* the entries of the failed outcomes in the alert card follow C20
FailedEntriesByClaim ==
    \A j \in 1..Min(Len(failed_urls), FailedCap) :
        /\ card.facts[5 + j].name
              = "X " \o ToStr(j) \o ". " \o DomainByClaim[failed_urls[j].url]
        /\ FewSegments[failed_urls[j].url] => StartsWith(card.facts[5 + j].value, "@ \n")

\* the group of the success card that lists the i-th outcome shows it under
\* the domain of C20
GroupEntryByClaim(i) ==
    Contains(card.facts[4 + ((i - 1) \div SuccessBatch) + 1].value \o "\n",
             "V " \o DomainByClaim[results[i].url] \o "\n")

\* C20 as stated: both card builders get through every target, and show a
\* target of 3 or more segments under its third segment and a target of fewer
\* segments under its raw url cut to 50 characters, with an empty path.
C20_DomainOrCutUrl ==
    /\ (pc = "finally" /\ fault = "none") => (AlertCardBuilt \/ SuccessCardBuilt)
    /\ AlertCardBuilt => FailedEntriesByClaim
    /\ SuccessCardBuilt => \A i \in 1..Len(results) : GroupEntryByClaim(i)

\* an exception left check_url: requests.head or requests.get raised one that
\* is no RequestException, which no except clause of _check_file_url catches
Escaped(tr) ==
    /\ tr.route = "file_req"
    /\ \/ tr.head.kind = "exc"
       \/ tr.get.kind = "exc"

\* C21: when an unexpected exception leaves check_url after the session was
\* acquired, the run is aborted: the target that raised is the last one
\* checked and gets no outcome, no card is built or dispatched (also when
\* unavailable outcomes were recorded before), the exit code is 1, and by the
\* time run returns _cleanup has run and has quit the session.
C21_EscapedFaultAborts ==
    /\ \A i \in 1..Len(reqs) :
          Escaped(reqs[i]) =>
              /\ fault = "check"
              /\ i = Len(reqs)
              /\ Len(results) = i - 1
              /\ pc \in {"finally", "idle"}
    /\ fault = "check" =>
          /\ Escaped(reqs[Len(reqs)])
          /\ driver # 0
          /\ failed_urls = << >>
          /\ card = NoCard
          /\ posts = << >>
          /\ exit_code = FailureCode
          /\ RunReturned => (cleanups = 1 /\ quits = 1 /\ sessions[driver] = 1)

\* the first target was found unavailable, the check of the second raised, and
\* the run has returned 1 without a notification and with its session quit
C21_Witness ==
    /\ RunReturned
    /\ fault = "check"
    /\ Len(urls) = 2
    /\ Len(results) = 1
    /\ ~results[1].is_available
    /\ Escaped(reqs[2])
    /\ posts = << >>
    /\ quits = 1
    /\ exit_code = FailureCode

\* C22 as stated: over the runs of one WebMonitor, whatever step of
\* _setup_driver fails, quit() is never called twice on a session, and when a
\* run has returned every session created so far was quit exactly once.
C22_EverySessionQuitOnce ==
    /\ \A s \in 1..Len(sessions) : sessions[s] <= 1
    /\ RunReturned => \A s \in 1..Len(sessions) : sessions[s] = 1

=============================================================================
